---- MODULE Spec2Model ----
(***************************************************************************)
(* The ReAct decision loop of RabbitAI, in its two implementations:        *)
(*   "proc"  : rabbitai/agent.py       ReactAgent.solve (a for loop)       *)
(*   "graph" : rabbitai/reactagent.py  ReactAgent.solve (a LangGraph of    *)
(*             the nodes _agent_node and _execute_command_node and the     *)
(*             conditional edge _should_continue)                          *)
(* One behaviour is one solve request.  The model client, the command      *)
(* executor, the context provider and the clock are the environment.       *)
(***************************************************************************)
EXTENDS Integers, Sequences, FiniteSets, TLC

VARIABLES
    impl,             \* which implementation serves the request
    max_iterations,   \* self.max_iterations
    llm_timeout,      \* self.llm_timeout (seconds)
    hasSIGALRM,       \* hasattr(signal, 'SIGALRM') on this platform
    pc,               \* position of the request's thread of control
    iteration,        \* proc: the loop variable; graph: state["iteration"]
    history,          \* the list of history entries
    history_str,      \* the transcript rendered for the latest prompt
    timer,            \* TRUE while a SIGALRM alarm is pending
    response,         \* result.content of the latest loop model call
    decision,         \* the decision parsed from it
    exc,              \* the exception being handled by `except Exception`
    final_answer,     \* graph: state["final_answer"]
    should_continue,  \* graph: state["should_continue"]
    result,           \* what solve returned
    model_calls,      \* history variable: loop calls of llm.invoke
    fallback_calls,   \* history variable: calls of _generate_timeout_response
    exec_log,         \* history variable: commands given to executor.execute
    exec_results,     \* history variable: what executor.execute returned, in order
    decision_log,     \* history variable: the decisions parsed so far
    timeouts,         \* history variable: TimeoutError raised by timeout_handler
    overdue,          \* history variable: a deadline passed with a loop call outstanding
    fallback_outcome, \* history variable: how the fallback's llm.invoke ended
    peer_pc,          \* a concurrent request in a worker thread: its position
    peer_iteration,   \* the concurrent request's iteration counter
    peer_history,     \* the concurrent request's history
    script,           \* the replies and executor outcomes fixed in advance, if any
    first,            \* how the same script ended under agent.py, once replayed
    default_config,   \* Config: the nested dicts self.default_config points to
    config_file,      \* Config: what ~/.rabbitai/config.yaml holds
    returned,         \* Config: the configuration load returned to the caller
    last_op           \* history variable: the latest Config operation

vars ==
    << impl, max_iterations, llm_timeout, hasSIGALRM, pc, iteration, history,
       history_str, timer, response, decision, exc, final_answer,
       should_continue, result, model_calls, fallback_calls, exec_log,
       exec_results, decision_log, timeouts, overdue, fallback_outcome,
       peer_pc, peer_iteration, peer_history, script, first, default_config,
       config_file, returned, last_op >>

(***************************************************************************)
(* Bounds of the model.                                                    *)
(***************************************************************************)
\* max_iterations ranges over 1..MaxIter
MaxIter == 3

(***************************************************************************)
(* Program constants.                                                      *)
(***************************************************************************)
StoreOutputCap == 1000
StoreErrorCap == 500
RenderOutputCap == 500
RenderErrorCap == 200
DefaultTimeout == 30

(***************************************************************************)
(* Values.  A JSON value of a model reply is a string or a number; a key   *)
(* that the object does not hold is Absent.                                *)
(***************************************************************************)
Absent == [type |-> "absent"]

JStr(s) == [type |-> "str", s |-> s]

JNum(n) == [type |-> "num", n |-> n]

JNull == [type |-> "null"]

\* Python truthiness of a JSON value: `not v`
Falsy(v) ==
    \/ v.type = "str" /\ v.s = ""
    \/ v.type = "num" /\ v.n = 0
    \/ v.type = "null"

\* len(v) raises TypeError for a value that has no length
HasLen(v) == v.type = "str"

\* Executor text (output, error): the source text and how much of it is held
EmptyText == [id |-> "", len |-> 0]

Text(id, n) == IF n = 0 THEN EmptyText ELSE [id |-> id, len |-> n]

Min(a, b) == IF a < b THEN a ELSE b

\* t[:k]
Slice(t, k) == Text(t.id, Min(t.len, k))

(***************************************************************************)
(* The strings solve returns.                                              *)
(***************************************************************************)
NoResult == [type |-> "none"]

Apology ==
    JStr("The AI assistant timed out while processing your query. The issue might be too complex or the API is slow. Please try again or simplify your query.")

ErrorMessage(e) ==
    [type |-> "fstr", head |-> "I encountered an error while processing your query: ", arg |-> e]

SummaryMessage(content) ==
    [type |-> "fstr", head |-> "I've completed my diagnostic steps. Here's what I found:\n\n", arg |-> content]

TemplateMessage(h) ==
    [type |-> "fstr", head |-> "I've completed ", steps |-> Len(h),
     tail |-> " diagnostic steps but need more time to fully resolve this. Based on what I've found so far, you may want to run additional diagnostics manually."]

TimeoutErrorText == "LLM API call timed out"

InvocationErrorText == "invocation error"

(***************************************************************************)
(* Model replies.  `response` is the payload of result.content once the    *)
(* markdown fence, if any, is stripped: text json.loads rejects            *)
(* ("garbage"), a JSON value that is no object ("nonobject"), or an object *)
(* with some of the keys action, command, answer, thought.                 *)
(***************************************************************************)
Obj(a, c, ans, t) ==
    [decodes |-> "object",
     obj |-> [action |-> a, command |-> c, answer |-> ans, thought |-> t]]

Garbage == [decodes |-> "garbage", obj |-> Absent]

NonObject == [decodes |-> "nonobject", obj |-> Absent]

FINAL_ANSWER == JStr("final_answer")

EXECUTE_COMMAND == JStr("execute_command")

Placeholder == JStr("Processing...")

\* The replies the model client may give to a loop call
LoopResponses ==
    { Garbage, NonObject,
      Obj(Absent, Absent, Absent, JStr("no action")),
      Obj(FINAL_ANSWER, Absent, Absent, JStr("done")),
      Obj(FINAL_ANSWER, Absent, JStr(""), JStr("done")),
      Obj(FINAL_ANSWER, Absent, JStr("Your root partition is full."), JStr("done")),
      Obj(FINAL_ANSWER, Absent, JNum(7), JStr("done")),
      Obj(EXECUTE_COMMAND, Absent, Absent, JStr("check")),
      Obj(EXECUTE_COMMAND, JStr(""), Absent, JStr("check")),
      Obj(EXECUTE_COMMAND, JStr("df -h"), Absent, JStr("check disk usage")),
      Obj(EXECUTE_COMMAND, JStr("ls"), Absent, Absent),
      Obj(JStr("restart"), Absent, Absent, JStr("try something else")) }

\* The reply to the fallback summary call
SummaryContent == "summary of the findings"

\* What executor.execute may return
ExecOutcomes ==
    { [success |-> TRUE, output |-> Text("out", 1500), error |-> EmptyText, blocked |-> FALSE],
      [success |-> FALSE, output |-> EmptyText, error |-> Text("err", 600), blocked |-> FALSE],
      [success |-> FALSE, output |-> EmptyText, error |-> Text("command not permitted", 21), blocked |-> TRUE] }

(***************************************************************************)
(* _parse_decision                                                         *)
(***************************************************************************)
ParseOk(d) == [ok |-> TRUE, decision |-> d, error |-> ""]

ParseFail(e) == [ok |-> FALSE, decision |-> Absent, error |-> e]

\* (mutation of ParseDecision: the placeholder replaces any falsy thought and
\* a final_answer needs no answer key)
ParseDecision_Lenient(r) ==
    IF r.decodes = "garbage" THEN ParseFail("Invalid JSON response")
    ELSE IF r.decodes = "nonobject" THEN ParseFail("TypeError")
    ELSE IF r.obj.action = Absent THEN ParseFail("Missing 'action' field")
    ELSE IF r.obj.action = EXECUTE_COMMAND /\ r.obj.command = Absent
        THEN ParseFail("Missing 'command' field for execute_command action")
    ELSE IF r.obj.thought = Absent \/ Falsy(r.obj.thought)
        THEN ParseOk([r.obj EXCEPT !.thought = Placeholder])
    ELSE ParseOk(r.obj)

ParseDecision(r) ==
    IF r.decodes = "garbage" THEN ParseFail("Invalid JSON response")
    ELSE IF r.decodes = "nonobject" THEN ParseFail("TypeError")
    ELSE IF r.obj.action = Absent THEN ParseFail("Missing 'action' field")
    ELSE IF r.obj.action = EXECUTE_COMMAND /\ r.obj.command = Absent
        THEN ParseFail("Missing 'command' field for execute_command action")
    ELSE IF r.obj.action = FINAL_ANSWER /\ r.obj.answer = Absent
        THEN ParseFail("Missing 'answer' field for final_answer action")
    ELSE IF r.obj.thought = Absent
        THEN ParseOk([r.obj EXCEPT !.thought = Placeholder])
    ELSE ParseOk(r.obj)

\* decision.get("command", "")
GetCommand(d) == IF d.command = Absent THEN JStr("") ELSE d.command

\* The kind of a parsed decision, as the loop branches on it
IsFinal(d) == d.action = FINAL_ANSWER

IsCommand(d) == d.action = EXECUTE_COMMAND /\ ~Falsy(GetCommand(d))

IsEmptyCommand(d) == d.action = EXECUTE_COMMAND /\ Falsy(GetCommand(d))

IsUnknown(d) == d.action # FINAL_ANSWER /\ d.action # EXECUTE_COMMAND

(***************************************************************************)
(* History entries and _format_history                                     *)
(***************************************************************************)
\* (mutation of NewEntry: the decision's command put on every new entry)
NewEntry_WithCommand(it, d) ==
    [iteration |-> it, thought |-> d.thought, action |-> d.action,
     command |-> GetCommand(d), result |-> Absent]

\* The entry made for the decision of iteration it
NewEntry(it, d) ==
    [iteration |-> it, thought |-> d.thought, action |-> d.action,
     command |-> Absent, result |-> Absent]

\* (mutation of StoredResult: the outcome stored as the executor gave it)
StoredResult_Uncapped(o) ==
    [success |-> o.success, output |-> o.output, error |-> o.error]

\* The outcome as stored on a history entry
StoredResult(o) ==
    [success |-> o.success,
     output |-> Slice(o.output, StoreOutputCap),
     error |-> IF o.error.len > 0 THEN Slice(o.error, StoreErrorCap) ELSE EmptyText]

SetLast(h, e) == [h EXCEPT ![Len(h)] = e]

Line(label, value) == [label |-> label, value |-> value]

\* entry.get('result', {}) read with .get: a missing outcome renders as
\* success False, no output, no error
EntryResult(e) ==
    IF e.result = Absent
    THEN [success |-> FALSE, output |-> EmptyText, error |-> EmptyText]
    ELSE e.result

\* (mutation of FormatEntry: the stored texts rendered whole)
FormatEntry_StoredText(e) ==
    << Line("--- Iteration", e.iteration), Line("Thought", e.thought),
       Line("Action", e.action) >>
    \o (IF e.command = Absent THEN << >>
        ELSE << Line("Command", e.command),
                Line("Success", EntryResult(e).success) >>
             \o (IF EntryResult(e).output.len > 0
                 THEN << Line("Output", EntryResult(e).output) >>
                 ELSE << >>)
             \o (IF EntryResult(e).error.len > 0
                 THEN << Line("Error", EntryResult(e).error) >>
                 ELSE << >>))

\* one entry of _format_history: the three header lines, then the command
\* block with the outcome texts cut to the rendering caps
FormatEntry(e) ==
    << Line("--- Iteration", e.iteration), Line("Thought", e.thought),
       Line("Action", e.action) >>
    \o (IF e.command = Absent THEN << >>
        ELSE << Line("Command", e.command),
                Line("Success", EntryResult(e).success) >>
             \o (IF EntryResult(e).output.len > 0
                 THEN << Line("Output", Slice(EntryResult(e).output, RenderOutputCap)) >>
                 ELSE << >>)
             \o (IF EntryResult(e).error.len > 0
                 THEN << Line("Error", Slice(EntryResult(e).error, RenderErrorCap)) >>
                 ELSE << >>))

FirstStepSentinel ==
    << Line("sentinel", "No previous actions yet. This is your first step.") >>

RECURSIVE FormatEntries(_)
FormatEntries(h) ==
    IF h = << >> THEN << >>
    ELSE FormatEntry(Head(h)) \o FormatEntries(Tail(h))

FormatHistory(h) == IF h = << >> THEN FirstStepSentinel ELSE FormatEntries(h)

(***************************************************************************)
(* config.py: the Config object.  self.default_config is a dict of three   *)
(* nested dicts; dict.copy() is shallow, so a copy of it is a new top-level *)
(* dict whose values are the same three nested dict objects.                *)
(***************************************************************************)
Sections == {"llm", "agent", "safety"}

\* 'api_key': None
NoKey == "None"

\* self.default_config as __init__ builds it
OriginalDefaults ==
    [llm |-> [provider |-> "gemini", model |-> "gemini-pro",
              api_key |-> NoKey, timeout_seconds |-> 30],
     agent |-> [max_iterations |-> 10],
     safety |-> [require_confirmation |-> TRUE, timeout_seconds |-> 30]]

\* A value under a top-level key: a mapping or anything else
Dict(d) == [kind |-> "dict", d |-> d]

Scalar(v) == [kind |-> "scalar", v |-> v]

\* The configuration file: absent, unreadable as YAML, empty (safe_load
\* gives None), or a mapping of top-level keys
Missing == [kind |-> "missing"]

Unreadable == [kind |-> "invalid"]

EmptyFile == [kind |-> "null"]

Mapping(f) == [kind |-> "map", sections |-> f]

\* A top-level dict: each key holds either one of the nested dict objects of
\* default_config itself, or a value of its own
Shared == [kind |-> "shared"]

Own(v) == [kind |-> "own", value |-> v]

NoConfig == [kind |-> "none"]

\* self.default_config.copy()
DefaultCopy == [kind |-> "config", top |-> [k \in Sections |-> Shared]]

\* c[key], read now
Section(c, key) ==
    IF c.top[key].kind = "shared" THEN Dict(default_config[key])
    ELSE c.top[key].value

\* d.update(u)
Update(d, u) ==
    [k \in DOMAIN d \cup DOMAIN u |-> IF k \in DOMAIN u THEN u[k] ELSE d[k]]

\* _merge_with_defaults: what the loop leaves in the nested dicts of
\* default_config (merged[key].update(value) works on the shared object)
MergedDefaults(f) ==
    [k \in Sections |->
        IF k \in DOMAIN f /\ f[k].kind = "dict"
        THEN Update(default_config[k], f[k].d)
        ELSE default_config[k]]

\* _merge_with_defaults: the dict it returns
Merged(f) ==
    [kind |-> "config",
     top |-> [k \in Sections |->
                IF k \in DOMAIN f /\ f[k].kind # "dict"
                THEN Own(f[k]) ELSE Shared]]

\* yaml.dump(config): the file holds what the config reads as now
Dumped(c) == Mapping([k \in Sections |-> Section(c, k)])

settings == << default_config, config_file, returned, last_op >>

\* A fresh Config object, no configuration file yet
SettingsInit ==
    /\ default_config = OriginalDefaults
    /\ config_file = Missing
    /\ returned = NoConfig
    /\ last_op = "none"

(***************************************************************************)
(* The request.                                                            *)
(***************************************************************************)
Impls == {"proc", "graph"}

NoDecision == Absent

NoResponse == [decodes |-> "none", obj |-> Absent]

RequestInit ==
    /\ impl \in Impls
    /\ max_iterations \in 1..MaxIter
    /\ llm_timeout \in {0, DefaultTimeout}
    /\ hasSIGALRM \in BOOLEAN
    /\ pc = "start"
    /\ iteration = 0
    /\ history = << >>
    /\ history_str = << >>
    /\ timer = FALSE
    /\ response = NoResponse
    /\ decision = NoDecision
    /\ exc = ""
    /\ final_answer = JStr("")
    /\ should_continue = TRUE
    /\ result = NoResult
    /\ model_calls = 0
    /\ fallback_calls = 0
    /\ exec_log = << >>
    /\ exec_results = << >>
    /\ decision_log = << >>
    /\ timeouts = 0
    /\ overdue = FALSE
    /\ fallback_outcome = "none"
    /\ SettingsInit

\* The environment is free: no script
NoScript == [type |-> "none"]

NoRun == [type |-> "none"]

\* One request alone in the process, the model client and the executor
\* answering as they like
Init ==
    /\ RequestInit
    /\ peer_pc = "none"
    /\ peer_iteration = 0
    /\ peer_history = << >>
    /\ script = NoScript
    /\ first = NoRun

peer == << peer_pc, peer_iteration, peer_history >>

replay == << script, first >>

\* What the model client may answer to the loop call just made
Replies ==
    IF script = NoScript THEN LoopResponses ELSE { script.replies[model_calls] }

\* What the executor may return to the call just made
Outcomes ==
    IF script = NoScript THEN ExecOutcomes
    ELSE { script.outcomes[Len(exec_results) + 1] }

config == << impl, max_iterations, llm_timeout, hasSIGALRM >>

ghosts ==
    << model_calls, fallback_calls, exec_log, exec_results, decision_log,
       timeouts, overdue, fallback_outcome >>

\* _should_continue: the conditional edge out of the agent node
ShouldContinue(sc, it, max) == IF sc /\ it < max THEN "execute" ELSE "end"

\* The node the graph runs after the agent node
NextNode(sc, it, max) ==
    IF ShouldContinue(sc, it, max) = "execute" THEN "execute_command" ELSE "done"

\* solve returns v: the procedural loop by `return v`; the graph by setting
\* final_answer and should_continue = False in the agent node, after which
\* the conditional edge ends the graph and solve returns final_answer
Return(v) ==
    IF impl = "proc"
    THEN /\ result' = v
         /\ pc' = "done"
         /\ UNCHANGED << final_answer, should_continue >>
    ELSE /\ final_answer' = v
         /\ should_continue' = FALSE
         /\ pc' = NextNode(FALSE, iteration, max_iterations)
         /\ result' = v

\* An exception leaves solve
Raise ==
    /\ pc' = "raised"
    /\ UNCHANGED << result, final_answer, should_continue >>

(***************************************************************************)
(* solve entry: the context provider is asked for the environment facts    *)
(* outside any try block; it returns or raises.                            *)
(***************************************************************************)
SolveStart ==
    /\ pc = "start"
    /\ \E ok \in BOOLEAN :
          IF ok
          THEN /\ pc' = IF impl = "proc" THEN "loop" ELSE "agent"
               /\ UNCHANGED << result, final_answer, should_continue >>
          ELSE Raise
    /\ UNCHANGED << config, settings, peer, replay, iteration, history, history_str,
                    timer, response, decision, exc, ghosts >>

(***************************************************************************)
(* The top of an iteration: the transcript is rendered for the prompt.     *)
(***************************************************************************)
\* (mutation of LoopHasNext: one pass too many)
LoopHasNext_OffByOne(it, max) == it <= max

\* for iteration in range(self.max_iterations): another pass remains
LoopHasNext(it, max) == it < max

solve_LoopTop ==
    /\ impl = "proc"
    /\ pc = "loop"
    /\ IF LoopHasNext(iteration, max_iterations)
       THEN /\ history_str' = FormatHistory(history)
            /\ pc' = "arm"
       ELSE /\ pc' = "fallback"
            /\ UNCHANGED history_str
    /\ UNCHANGED << config, settings, peer, replay, iteration, history, timer, response,
                    decision, exc, final_answer, should_continue, result,
                    ghosts >>

agent_node_Enter ==
    /\ impl = "graph"
    /\ pc = "agent"
    /\ history_str' = FormatHistory(history)
    /\ pc' = "arm"
    /\ UNCHANGED << config, settings, peer, replay, iteration, history, timer, response,
                    decision, exc, final_answer, should_continue, result,
                    ghosts >>

(***************************************************************************)
(* The loop model call under the alarm (the same block in both files).     *)
(***************************************************************************)
\* signal.alarm(seconds) leaves an alarm pending iff seconds > 0
AlarmPending(has, seconds) == has /\ seconds > 0

\* try: if hasattr(signal, 'SIGALRM'): signal.signal(...); signal.alarm(t)
ArmAlarm ==
    /\ pc = "arm"
    /\ timer' = AlarmPending(hasSIGALRM, llm_timeout)
    /\ pc' = "armed"
    /\ UNCHANGED << config, settings, peer, replay, iteration, history, history_str,
                    response, decision, exc, final_answer, should_continue,
                    result, ghosts >>

\* inner try: the prompt is formatted and llm.invoke is called
InvokeLLM ==
    /\ pc = "armed"
    /\ pc' = "invoke"
    /\ model_calls' = model_calls + 1
    /\ UNCHANGED << config, settings, peer, replay, iteration, history, history_str,
                    timer, response, decision, exc, final_answer,
                    should_continue, result, fallback_calls, exec_log,
                    exec_results, decision_log, timeouts, overdue,
                    fallback_outcome >>

\* llm.invoke returns a reply
LLMReturns ==
    /\ pc = "invoke"
    /\ \E r \in Replies : response' = r
    /\ pc' = "returned"
    /\ UNCHANGED << config, settings, peer, replay, iteration, history, history_str,
                    timer, decision, exc, final_answer, should_continue,
                    result, ghosts >>

\* llm.invoke raises
LLMRaises ==
    /\ pc = "invoke"
    /\ exc' = InvocationErrorText
    /\ pc' = "handling"
    /\ UNCHANGED << config, settings, peer, replay, iteration, history, history_str,
                    timer, response, decision, final_answer, should_continue,
                    result, ghosts >>

\* (mutation of CancelAlarm: the alarm is left pending after the reply)
CancelAlarm_Forgotten ==
    /\ pc = "returned"
    /\ timer' = timer
    /\ pc' = "parse"
    /\ UNCHANGED << config, settings, peer, replay, iteration, history, history_str,
                    response, decision, exc, final_answer, should_continue,
                    result, ghosts >>

\* signal.alarm(0) after the reply
CancelAlarm ==
    /\ pc = "returned"
    /\ timer' = FALSE
    /\ pc' = "parse"
    /\ UNCHANGED << config, settings, peer, replay, iteration, history, history_str,
                    response, decision, exc, final_answer, should_continue,
                    result, ghosts >>

\* decision = self._parse_decision(result.content), inside the outer try
Parse ==
    /\ pc = "parse"
    /\ LET p == ParseDecision(response) IN
          IF p.ok
          THEN /\ decision' = p.decision
               /\ decision_log' = Append(decision_log, p.decision)
               /\ pc' = "decided"
               /\ exc' = exc
          ELSE /\ exc' = p.error
               /\ pc' = "handling"
               /\ UNCHANGED << decision, decision_log >>
    /\ UNCHANGED << config, settings, peer, replay, iteration, history, history_str,
                    timer, response, final_answer, should_continue, result,
                    model_calls, fallback_calls, exec_log, exec_results,
                    timeouts, overdue, fallback_outcome >>

\* (mutation of HandleError: the error is swallowed and the loop goes on)
HandleError_Continue ==
    /\ pc = "handling"
    /\ timer' = FALSE
    /\ iteration' = iteration + 1
    /\ pc' = IF impl = "proc" THEN "loop" ELSE "agent"
    /\ UNCHANGED << config, settings, peer, replay, history, history_str, response,
                    decision, exc, final_answer, should_continue, result,
                    ghosts >>

\* except Exception as e: signal.alarm(0); return the error message
HandleError ==
    /\ pc = "handling"
    /\ timer' = FALSE
    /\ Return(ErrorMessage(exc))
    /\ UNCHANGED << config, settings, peer, replay, iteration, history, history_str,
                    response, decision, exc, ghosts >>

(***************************************************************************)
(* The alarm goes off: timeout_handler raises TimeoutError at whatever     *)
(* point the thread of control has reached.                                *)
(***************************************************************************)
\* after signal.alarm(t), before the inner try is entered: the outer
\* `except Exception` catches it
TimeoutBeforeTry ==
    /\ pc = "armed"
    /\ timer
    /\ timer' = FALSE
    /\ timeouts' = timeouts + 1
    /\ exc' = TimeoutErrorText
    /\ pc' = "handling"
    /\ UNCHANGED << config, settings, peer, replay, iteration, history, history_str,
                    response, decision, final_answer, should_continue, result,
                    model_calls, fallback_calls, exec_log, exec_results,
                    decision_log, overdue, fallback_outcome >>

\* (mutation of TimeoutAnswer: the timeout reported as a generic error)
TimeoutAnswer_AsError == ErrorMessage(TimeoutErrorText)

\* what `except TimeoutError` returns
TimeoutAnswer == Apology

\* inside the inner try (the call is outstanding, or has returned and the
\* alarm is not yet cancelled): `except TimeoutError` returns the apology
TimeoutInCall ==
    /\ pc \in {"invoke", "returned"}
    /\ timer
    /\ timer' = FALSE
    /\ timeouts' = timeouts + 1
    /\ overdue' = (overdue \/ pc = "invoke")
    /\ Return(TimeoutAnswer)
    /\ UNCHANGED << config, settings, peer, replay, iteration, history, history_str,
                    response, decision, exc, model_calls, fallback_calls,
                    exec_log, exec_results, decision_log, fallback_outcome >>

\* inside the `except Exception` handler, before its signal.alarm(0): no
\* handler encloses this point, the TimeoutError leaves solve
TimeoutInHandler ==
    /\ pc = "handling"
    /\ timer
    /\ timer' = FALSE
    /\ timeouts' = timeouts + 1
    /\ Raise
    /\ UNCHANGED << config, settings, peer, replay, iteration, history, history_str,
                    response, decision, exc, model_calls, fallback_calls,
                    exec_log, exec_results, decision_log, overdue,
                    fallback_outcome >>

\* the configured deadline passes while the call is outstanding and no alarm
\* is pending (no SIGALRM on the platform, or signal.alarm(0)): nothing
\* happens to the call
DeadlineUnguarded ==
    /\ pc = "invoke"
    /\ ~timer
    /\ ~overdue
    /\ overdue' = TRUE
    /\ UNCHANGED << config, settings, peer, replay, pc, iteration, history, history_str,
                    timer, response, decision, exc, final_answer,
                    should_continue, result, model_calls, fallback_calls,
                    exec_log, exec_results, decision_log, timeouts,
                    fallback_outcome >>

(***************************************************************************)
(* agent.py: the decision is recorded and acted on.                        *)
(***************************************************************************)
solve_Decide ==
    /\ impl = "proc"
    /\ pc = "decided"
    /\ history' = Append(history, NewEntry(iteration + 1, decision))
    /\ IF IsFinal(decision)
       THEN /\ IF HasLen(decision.answer) THEN Return(decision.answer) ELSE Raise
            /\ UNCHANGED << iteration, exec_log >>
       ELSE IF IsCommand(decision)
       THEN /\ exec_log' = Append(exec_log, GetCommand(decision))
            /\ pc' = "executing"
            /\ UNCHANGED << iteration, result, final_answer,
                            should_continue >>
       ELSE /\ iteration' = iteration + 1
            /\ pc' = "loop"
            /\ UNCHANGED << exec_log, result, final_answer, should_continue >>
    /\ UNCHANGED << config, settings, peer, replay, history_str, timer, response,
                    decision, exc, model_calls, fallback_calls, exec_results,
                    decision_log, timeouts, overdue, fallback_outcome >>

\* (mutation of solve_ExecReturns: a blocked command ends the request)
solve_ExecReturns_StopOnBlocked ==
    /\ impl = "proc"
    /\ pc = "executing"
    /\ \E o \in Outcomes :
          /\ history' = SetLast(history,
                           [history[Len(history)] EXCEPT
                               !.command = GetCommand(decision),
                               !.result = StoredResult(o)])
          /\ exec_results' = Append(exec_results, o)
          /\ pc' = IF o.blocked THEN "done" ELSE "loop"
          /\ result' = IF o.blocked THEN ErrorMessage("blocked") ELSE result
    /\ iteration' = iteration + 1
    /\ UNCHANGED << config, settings, peer, replay, history_str, timer, response,
                    decision, exc, final_answer, should_continue, model_calls,
                    fallback_calls, exec_log, decision_log, timeouts, overdue,
                    fallback_outcome >>

\* executor.execute returned: the observation is put on history[-1]
solve_ExecReturns ==
    /\ impl = "proc"
    /\ pc = "executing"
    /\ \E o \in Outcomes :
          /\ history' = SetLast(history,
                           [history[Len(history)] EXCEPT
                               !.command = GetCommand(decision),
                               !.result = StoredResult(o)])
          /\ exec_results' = Append(exec_results, o)
    /\ iteration' = iteration + 1
    /\ pc' = "loop"
    /\ UNCHANGED << config, settings, peer, replay, history_str, timer, response,
                    decision, exc, final_answer, should_continue, result,
                    model_calls, fallback_calls, exec_log, decision_log,
                    timeouts, overdue, fallback_outcome >>

\* executor.execute raises: no try block encloses the call (either file)
ExecRaises ==
    /\ pc = "executing"
    /\ Raise
    /\ UNCHANGED << config, settings, peer, replay, iteration, history, history_str,
                    timer, response, decision, exc, ghosts >>

(***************************************************************************)
(* reactagent.py: the agent node records the decision and the conditional  *)
(* edge picks the next node.                                               *)
(***************************************************************************)
\* `if not state["final_answer"]` at the iteration cap
NeedsFallback(fa) == Falsy(fa)

\* (mutation of CapReached: the cap is noticed one iteration late)
CapReached_Late(it, max) == it > max

\* state["iteration"] >= state["max_iterations"]
CapReached(it, max) == it >= max

agent_node_Decide ==
    /\ impl = "graph"
    /\ pc = "decided"
    /\ iteration' = iteration + 1
    /\ IF IsFinal(decision) /\ ~HasLen(decision.answer)
       THEN /\ Raise
            /\ UNCHANGED history
       ELSE LET fa == IF IsFinal(decision) THEN decision.answer ELSE final_answer
                sc == ~IsFinal(decision)
                it == iteration + 1
            IN  /\ history' =
                      IF IsCommand(decision)
                      THEN Append(history,
                              [NewEntry(it, decision) EXCEPT
                                  !.command = GetCommand(decision)])
                      ELSE history
                /\ final_answer' = fa
                /\ IF CapReached(it, max_iterations)
                   THEN /\ should_continue' = FALSE
                        /\ pc' = IF NeedsFallback(fa)
                                 THEN "fallback"
                                 ELSE NextNode(FALSE, it, max_iterations)
                        /\ result' = IF NeedsFallback(fa) THEN result ELSE fa
                   ELSE /\ should_continue' = sc
                        /\ pc' = NextNode(sc, it, max_iterations)
                        /\ result' = IF NextNode(sc, it, max_iterations) = "done"
                                     THEN fa ELSE result
    /\ UNCHANGED << config, settings, peer, replay, history_str, timer, response,
                    decision, exc, ghosts >>

\* _execute_command_node up to the executor call: the command is read from
\* the last history entry
execute_command_node_Enter ==
    /\ impl = "graph"
    /\ pc = "execute_command"
    /\ IF history = << >> \/ Falsy(GetCommand(history[Len(history)]))
       THEN /\ pc' = "agent"
            /\ UNCHANGED exec_log
       ELSE /\ exec_log' = Append(exec_log, history[Len(history)].command)
            /\ pc' = "executing"
    /\ UNCHANGED << config, settings, peer, replay, iteration, history, history_str,
                    timer, response, decision, exc, final_answer,
                    should_continue, result, model_calls, fallback_calls,
                    exec_results, decision_log, timeouts, overdue,
                    fallback_outcome >>

\* executor.execute returned: the observation is put on the last entry and
\* the edge execute_command -> agent is taken
execute_command_node_ExecReturns ==
    /\ impl = "graph"
    /\ pc = "executing"
    /\ \E o \in Outcomes :
          /\ history' = SetLast(history,
                           [history[Len(history)] EXCEPT !.result = StoredResult(o)])
          /\ exec_results' = Append(exec_results, o)
    /\ pc' = "agent"
    /\ UNCHANGED << config, settings, peer, replay, iteration, history_str, timer,
                    response, decision, exc, final_answer, should_continue,
                    result, model_calls, fallback_calls, exec_log,
                    decision_log, timeouts, overdue, fallback_outcome >>

(***************************************************************************)
(* _generate_timeout_response: the fallback summary.  Its llm.invoke runs  *)
(* under `except Exception` and under no alarm.                            *)
(***************************************************************************)
Fallback_Invoke ==
    /\ pc = "fallback"
    /\ history_str' = FormatHistory(history)
    /\ fallback_calls' = fallback_calls + 1
    /\ pc' = "fallback_invoke"
    /\ UNCHANGED << config, settings, peer, replay, iteration, history, timer, response,
                    decision, exc, final_answer, should_continue, result,
                    model_calls, exec_log, exec_results, decision_log,
                    timeouts, overdue, fallback_outcome >>

\* (mutation of FallbackTemplate: the iteration cap reported as step count)
FallbackTemplate_Cap(h) == [TemplateMessage(h) EXCEPT !.steps = max_iterations]

\* The message built when the summary call fails
FallbackTemplate(h) == TemplateMessage(h)

\* the caller takes the fallback's string: `return ...` in agent.py,
\* state["final_answer"] = ... in reactagent.py, whose edge then ends
FallbackDone(msg, how) ==
    /\ fallback_outcome' = how
    /\ result' = msg
    /\ final_answer' = IF impl = "graph" THEN msg ELSE final_answer
    /\ pc' = IF impl = "graph"
             THEN NextNode(should_continue, iteration, max_iterations)
             ELSE "done"
    /\ UNCHANGED << config, settings, peer, replay, iteration, history, history_str,
                    timer, response, decision, exc, should_continue,
                    model_calls, fallback_calls, exec_log, exec_results,
                    decision_log, timeouts, overdue >>

Fallback_LLMReturns ==
    /\ pc = "fallback_invoke"
    /\ FallbackDone(SummaryMessage(SummaryContent), "returned")

Fallback_LLMRaises ==
    /\ pc = "fallback_invoke"
    /\ FallbackDone(FallbackTemplate(history), "raised")

(***************************************************************************)
(* The specification.                                                      *)
(***************************************************************************)
Next ==
    \/ SolveStart
    \/ solve_LoopTop
    \/ agent_node_Enter
    \/ ArmAlarm
    \/ InvokeLLM
    \/ LLMReturns
    \/ LLMRaises
    \/ CancelAlarm
    \/ Parse
    \/ HandleError
    \/ TimeoutBeforeTry
    \/ TimeoutInCall
    \/ TimeoutInHandler
    \/ DeadlineUnguarded
    \/ solve_Decide
    \/ solve_ExecReturns
    \/ ExecRaises
    \/ agent_node_Decide
    \/ execute_command_node_Enter
    \/ execute_command_node_ExecReturns
    \/ Fallback_Invoke
    \/ Fallback_LLMReturns
    \/ Fallback_LLMRaises

Spec == Init /\ [][Next]_vars

Terminated == pc \in {"done", "raised"}

(***************************************************************************)
(* The specification under the scheduling the code has: the thread of      *)
(* control takes its next step, the executor answers, a pending alarm goes *)
(* off.  Nothing obliges the model client to answer.                       *)
(***************************************************************************)
CoreStep ==
    \/ SolveStart
    \/ solve_LoopTop
    \/ agent_node_Enter
    \/ ArmAlarm
    \/ InvokeLLM
    \/ CancelAlarm
    \/ Parse
    \/ HandleError
    \/ solve_Decide
    \/ agent_node_Decide
    \/ execute_command_node_Enter
    \/ Fallback_Invoke

ExecutorStep ==
    \/ solve_ExecReturns
    \/ execute_command_node_ExecReturns
    \/ ExecRaises

AlarmStep ==
    \/ TimeoutBeforeTry
    \/ TimeoutInCall
    \/ TimeoutInHandler

LiveSpec ==
    /\ Init
    /\ [][Next]_vars
    /\ WF_vars(CoreStep)
    /\ WF_vars(ExecutorStep)
    /\ WF_vars(AlarmStep)

(***************************************************************************)
(* Properties.                                                             *)
(***************************************************************************)
LastDecision == decision_log[Len(decision_log)]

NoFinalParsed == \A i \in 1..Len(decision_log) : ~IsFinal(decision_log[i])

\* The commands of the execute_command decisions with a non-empty command
RECURSIVE CommandsOf(_)
CommandsOf(log) ==
    IF log = << >> THEN << >>
    ELSE (IF IsCommand(Head(log)) THEN << GetCommand(Head(log)) >> ELSE << >>)
         \o CommandsOf(Tail(log))

\* The alarm guards the loop model call
AlarmWorks == hasSIGALRM /\ llm_timeout > 0

\* C1: solve never raises to its caller: whatever the model client, the
\* executor and the context provider do, the request never ends with an
\* exception leaving solve.
C1_SolveNeverRaises == pc # "raised"

\* C2: one request makes at most max_iterations loop model calls and at most
\* one fallback summary call.
C2_CallBudget ==
    /\ model_calls <= max_iterations
    /\ fallback_calls <= 1

C2_Witness ==
    /\ pc = "done"
    /\ max_iterations >= 2
    /\ model_calls = max_iterations
    /\ fallback_calls = 1

\* C3: once a final_answer decision with an answer text is parsed, solve
\* returns exactly that text with no further model, executor or fallback
\* call; execute_command (non-empty) followed by final_answer returns the
\* answer after exactly 2 model calls and 1 executor call.
C3_FinalAnswerIsReturned ==
    (/\ decision_log # << >>
     /\ pc # "decided"
     /\ IsFinal(LastDecision)
     /\ HasLen(LastDecision.answer))
    => /\ pc = "done"
       /\ result = LastDecision.answer
       /\ fallback_calls = 0
       /\ model_calls = Len(decision_log)
       /\ (Len(decision_log) = 2 /\ IsCommand(decision_log[1]))
          => (model_calls = 2 /\ Len(exec_log) = 1)

\* C4: the executor is called exactly once per execute_command decision with
\* a non-empty command, with that command, and for no other reason: a request
\* that has returned dispatched exactly the commands of those decisions.
C4_ExecutorOncePerCommand ==
    /\ Len(exec_log) <= Len(CommandsOf(decision_log))
    /\ pc = "done" => exec_log = CommandsOf(decision_log)

\* C5: while the latest decision is an unknown action or an execute_command
\* with an empty command, no command is dispatched to the executor.
C5_NoDispatchAfterUnknownOrEmpty ==
    [][(/\ decision # NoDecision
        /\ IsUnknown(decision) \/ IsEmptyCommand(decision))
       => exec_log' = exec_log]_vars

\* C6: the fallback summarizer is invoked exactly once when the budget is
\* exhausted with no final_answer parsed, and never otherwise (not after a
\* final_answer, a timeout, an invocation failure or a parse failure).
C6_FallbackOnlyOnExhaustion ==
    /\ fallback_calls <= 1
    /\ fallback_calls = 1
       => (/\ Len(decision_log) = max_iterations
           /\ NoFinalParsed
           /\ timeouts = 0
           /\ exc = "")
    /\ (pc = "done" /\ Len(decision_log) = max_iterations /\ NoFinalParsed)
       => fallback_calls = 1

\* C7: the fallback summarizer never fails outward: when its model call
\* returns, solve returns the lead-in followed by the model text; when its
\* model call raises, solve returns the template whose step count is the
\* number of history entries.
C7_FallbackNeverFailsOutward ==
    /\ fallback_calls > 0 => pc # "raised"
    /\ fallback_outcome = "returned"
       => (/\ pc = "done"
           /\ result.type = "fstr"
           /\ result.head = "I've completed my diagnostic steps. Here's what I found:\n\n"
           /\ result.arg = SummaryContent)
    /\ fallback_outcome = "raised"
       => (/\ pc = "done"
           /\ result.type = "fstr"
           /\ result.head = "I've completed "
           /\ result.steps = Len(history))

C7_Witness ==
    /\ impl = "graph"
    /\ fallback_outcome = "raised"
    /\ Len(history) = 2
    /\ iteration = 3
    /\ result.steps = 2

\* The length the history has when every parsed decision has been recorded
ExpectedHistoryLen ==
    IF impl = "proc" THEN Len(decision_log) ELSE Len(CommandsOf(decision_log))

\* What holds of a request ended by the timeout of a loop model call
EndedByTimeout ==
    /\ pc = "done"
    /\ result = Apology
    /\ timeouts = 1
    /\ ~timer
    /\ fallback_calls = 0
    /\ model_calls = Len(decision_log) + 1
    /\ Len(history) = ExpectedHistoryLen

C9_EveryRequestEnds == AlarmWorks => <>Terminated

\* C10: a loop model call that fails with an invocation error is not
\* retried: the request ends with the error message as its result, with no
\* further model call, no fallback call and no executor call.
C10_InvocationErrorEndsRequest ==
    (exc = InvocationErrorText /\ pc # "handling")
    => /\ pc = "done"
       /\ result = ErrorMessage(InvocationErrorText)
       /\ model_calls = Len(decision_log) + 1
       /\ fallback_calls = 0

\* The messages of the errors _parse_decision (or the decoding of its payload)
\* ends with
ParseErrorTexts ==
    { "Invalid JSON response", "TypeError", "Missing 'action' field",
      "Missing 'command' field for execute_command action",
      "Missing 'answer' field for final_answer action" }

\* The latest loop reply failed decision parsing
ParseFailed == exc \in ParseErrorTexts

\* C11: a model response that fails decision parsing is terminal for the
\* request: once the handler has run, solve has returned the processing-error
\* message carrying the parse error, with no fallback call and no loop model
\* call after the failed one; and from the failure on no history entry is
\* added or changed, no command is dispatched and no model call is made.
C11_ParseFailureIsTerminal ==
    /\ [](ParseFailed /\ pc # "handling"
           => /\ pc = "done"
              /\ result = ErrorMessage(exc)
              /\ fallback_calls = 0
              /\ model_calls = Len(decision_log) + 1
              /\ Len(history) = ExpectedHistoryLen)
    /\ [][ParseFailed
           => /\ history' = history
              /\ exec_log' = exec_log
              /\ model_calls' = model_calls
              /\ fallback_calls' = fallback_calls]_vars

C11_Witness ==
    /\ ParseFailed
    /\ exc = "Missing 'command' field for execute_command action"
    /\ pc = "done"
    /\ result = ErrorMessage(exc)
    /\ Len(history) = 1
    /\ Len(exec_log) = 1
    /\ model_calls = 2

(***************************************************************************)
(* _parse_decision on its own: the reply just received is any payload over *)
(* the keys action, command, answer and thought, each key absent or        *)
(* holding a JSON value, and the request is about to parse it.             *)
(***************************************************************************)
ActionValues == { Absent, FINAL_ANSWER, EXECUTE_COMMAND, JStr("restart"), JNull }

CommandValues == { Absent, JStr(""), JStr("df -h"), JNull }

AnswerValues == { Absent, JStr(""), JStr("Your root partition is full."), JNum(7) }

ThoughtValues == { Absent, JStr(""), JStr("check disk usage"), JNull }

ParseInputs ==
    { Garbage, NonObject }
    \cup { Obj(a, c, ans, t) : a \in ActionValues, c \in CommandValues,
                               ans \in AnswerValues, t \in ThoughtValues }

ParseInit ==
    /\ impl \in Impls
    /\ max_iterations \in 1..MaxIter
    /\ llm_timeout = DefaultTimeout
    /\ hasSIGALRM \in BOOLEAN
    /\ pc = "parse"
    /\ iteration = 0
    /\ history = << >>
    /\ history_str = FirstStepSentinel
    /\ timer = FALSE
    /\ response \in ParseInputs
    /\ decision = NoDecision
    /\ exc = ""
    /\ final_answer = JStr("")
    /\ should_continue = TRUE
    /\ result = NoResult
    /\ model_calls = 1
    /\ fallback_calls = 0
    /\ exec_log = << >>
    /\ exec_results = << >>
    /\ decision_log = << >>
    /\ timeouts = 0
    /\ overdue = FALSE
    /\ fallback_outcome = "none"
    /\ peer_pc = "none"
    /\ peer_iteration = 0
    /\ peer_history = << >>
    /\ script = NoScript
    /\ first = NoRun
    /\ SettingsInit

ParseSpec == ParseInit /\ [][Parse]_vars

\* Validation rejects the decoded object o
MustFail(o) ==
    \/ o.action = Absent
    \/ o.action = EXECUTE_COMMAND /\ o.command = Absent
    \/ o.action = FINAL_ANSWER /\ o.answer = Absent

\* C12: for every payload that decodes to an object, parsing fails if the
\* action key is absent, if action is execute_command and the command key is
\* absent, or if action is final_answer and the answer key is absent; in
\* every other case (any other action value included) it succeeds, returns
\* action, command and answer unchanged, and returns the thought unchanged
\* unless the thought key was absent, when it is the fixed placeholder.
C12_ParseValidation ==
    (pc # "parse" /\ response.decodes = "object")
    => IF MustFail(response.obj)
       THEN /\ pc = "handling"
            /\ exc \in ParseErrorTexts \ { "Invalid JSON response", "TypeError" }
            /\ decision = NoDecision
       ELSE /\ pc = "decided"
            /\ exc = ""
            /\ decision.action = response.obj.action
            /\ decision.command = response.obj.command
            /\ decision.answer = response.obj.answer
            /\ decision.thought =
                  IF response.obj.thought = Absent
                  THEN JStr("Processing...")
                  ELSE response.obj.thought

C12_Witness ==
    /\ pc = "decided"
    /\ response.decodes = "object"
    /\ response.obj.action = JStr("restart")
    /\ response.obj.command = JNull
    /\ response.obj.thought = Absent
    /\ decision.action = JStr("restart")
    /\ decision.thought = JStr("Processing...")
    /\ decision_log = << decision >>

\* stored is the prefix of the executor text raw of length min(len, cap)
IsPrefixOfLen(stored, raw, cap) ==
    /\ stored.len = (IF raw.len < cap THEN raw.len ELSE cap)
    /\ stored.len > 0 => stored.id = raw.id

\* The outcome on entry e is the capped form of the executor outcome o
HoldsCapped(e, o) ==
    /\ e.result # Absent
    /\ e.result.success = o.success
    /\ IsPrefixOfLen(e.result.output, o.output, 1000)
    /\ IsPrefixOfLen(e.result.error, o.error, 500)

\* C13: each outcome stored in a history entry has an output that is the
\* prefix of the executor's output of length min(len, 1000) and an error that
\* is the prefix of the executor's error of length min(len, 500): no stored
\* text is longer than its cap, an outcome is stored only when the executor
\* returns, and what is then on the current entry is the capped form of what
\* the executor returned (a 1500-character output: its first 1000).
C13_StoredOutcomeIsCapped ==
    /\ [](\A i \in 1..Len(history) :
             history[i].result # Absent
             => /\ history[i].result.output.len <= 1000
                /\ history[i].result.error.len <= 500)
    /\ [][/\ Len(history') >= Len(history)
          /\ \A i \in 1..Len(history) :
                history'[i].result # history[i].result
                => exec_results' # exec_results
          /\ exec_results' # exec_results
             => /\ Len(exec_results') = Len(exec_results) + 1
                /\ history' # << >>
                /\ HoldsCapped(history'[Len(history')],
                               exec_results'[Len(exec_results')])]_vars

C13_Witness ==
    /\ Len(history) = 2
    /\ Len(exec_results) = 2
    /\ history[1].result # Absent
    /\ history[2].result # Absent
    /\ exec_results[1].error = [id |-> "err", len |-> 600]
    /\ history[1].result.error = [id |-> "err", len |-> 500]
    /\ exec_results[2].output = [id |-> "out", len |-> 1500]
    /\ history[2].result.output = [id |-> "out", len |-> 1000]

\* The outcome the executor returned last
LastExec == exec_results[Len(exec_results)]

\* The latest execution was reported blocked
LastExecBlocked == exec_results # << >> /\ LastExec.blocked

\* The transcript tr reports a failed command with the error text of o
ShowsFailure(tr, o) ==
    \E i \in 1..(Len(tr) - 1) :
        /\ tr[i] = [label |-> "Success", value |-> FALSE]
        /\ tr[i + 1].label = "Error"
        /\ tr[i + 1].value.id = o.error.id
        /\ tr[i + 1].value.len = o.error.len

\* C14: when the executor reports a command as blocked, the success flag
\* and the error text are recorded on the current (last) history entry and
\* the request goes on: the step that records it leaves the request running
\* with nothing returned; from there, with budget remaining, the steps of
\* the thread of control lead to the next loop model call and nowhere else
\* (the deadline alarm aside); and the transcript of that call reports the
\* blocked outcome.
C14_BlockedOutcomeGoesOn ==
    /\ [][(exec_results' # exec_results /\ exec_results'[Len(exec_results')].blocked)
          => /\ Len(history') = Len(history)
             /\ history'[Len(history')].result # Absent
             /\ history'[Len(history')].result.success = FALSE
             /\ history'[Len(history')].result.error
                   = exec_results'[Len(exec_results')].error
             /\ pc' \in {"loop", "agent"}
             /\ result' = NoResult]_vars
    /\ [][(/\ LastExecBlocked
           /\ pc \in {"loop", "agent", "arm", "armed"}
           /\ iteration < max_iterations
           /\ timeouts' = timeouts)
          => \/ pc = "loop" /\ pc' = "arm"
             \/ pc = "agent" /\ pc' = "arm"
             \/ pc = "arm" /\ pc' = "armed"
             \/ pc = "armed" /\ pc' = "invoke" /\ model_calls' = model_calls + 1]_vars
    /\ []((LastExecBlocked /\ pc \in {"arm", "armed", "invoke"})
          => ShowsFailure(history_str, LastExec))

C14_Witness ==
    /\ LastExecBlocked
    /\ pc = "invoke"
    /\ model_calls = 2
    /\ Len(history) = 1
    /\ history[1].result # Absent
    /\ history[1].result.error = [id |-> "command not permitted", len |-> 21]
    /\ ShowsFailure(history_str, LastExec)

\* C15: history is append-only within a request: no entry is deleted or
\* reordered, the iteration, thought and action of an existing entry never
\* change, nor does its command once it has one, and an outcome is attached
\* to an entry at most once: an entry that has an outcome keeps it, and the
\* executor's result is only ever put on an entry that has none.
C15_HistoryAppendOnly ==
    [][/\ Len(history') >= Len(history)
       /\ \A i \in 1..Len(history) :
             /\ history'[i].iteration = history[i].iteration
             /\ history'[i].thought = history[i].thought
             /\ history'[i].action = history[i].action
             /\ history[i].command # Absent
                => history'[i].command = history[i].command
             /\ history[i].result # Absent
                => history'[i].result = history[i].result
       /\ exec_results' # exec_results
          => history[Len(history)].result = Absent]_vars

(***************************************************************************)
(* Two requests in one process.  Python delivers signals to the main       *)
(* thread and lets only the main thread install a handler, so of two       *)
(* concurrent solve calls one runs in the main thread (the request         *)
(* modelled above) and the other in a worker thread: the peer, followed    *)
(* at the grain of its iterations.  The pending alarm (timer) is one per   *)
(* process.                                                                *)
(***************************************************************************)
request ==
    << pc, iteration, history, history_str, response, decision, exc,
       final_answer, should_continue, result >>

ConcInit ==
    /\ RequestInit
    /\ peer_pc = "start"
    /\ peer_iteration = 0
    /\ peer_history = << >>
    /\ script = NoScript
    /\ first = NoRun

\* solve entry in the worker thread
Peer_Start ==
    /\ peer_pc = "start"
    /\ peer_pc' = "arm"
    /\ UNCHANGED << config, settings, replay, request, timer, ghosts, peer_iteration,
                    peer_history >>

\* if hasattr(signal, 'SIGALRM'): signal.signal(...) raises ValueError in a
\* thread that is not the main thread, before signal.alarm is reached;
\* without SIGALRM the block is skipped and llm.invoke is called
Peer_ArmAlarm ==
    /\ peer_pc = "arm"
    /\ peer_pc' = IF hasSIGALRM THEN "handling" ELSE "invoke"
    /\ UNCHANGED << config, settings, replay, request, timer, ghosts, peer_iteration,
                    peer_history >>

\* The kinds of outcome of the peer's loop model call
PeerReplies == { "final_answer", "execute_command", "unknown", "error" }

\* llm.invoke answers and the peer records its decision (agent.py appends an
\* entry for every decision, reactagent.py for a command), runs the command
\* and advances its iteration; an invocation or parse error goes to the
\* handler
Peer_LLMReplies ==
    /\ peer_pc = "invoke"
    /\ \E kind \in PeerReplies :
          IF kind = "error"
          THEN /\ peer_pc' = "handling"
               /\ UNCHANGED << peer_iteration, peer_history >>
          ELSE /\ peer_iteration' = peer_iteration + 1
               /\ peer_history' =
                     IF impl = "proc" \/ kind = "execute_command"
                     THEN Append(peer_history,
                                 [iteration |-> peer_iteration + 1, action |-> kind])
                     ELSE peer_history
               /\ peer_pc' = IF kind = "final_answer"
                                \/ ~LoopHasNext(peer_iteration + 1, max_iterations)
                             THEN "done"
                             ELSE "arm"
    /\ UNCHANGED << config, settings, replay, request, timer, ghosts >>

\* except Exception as e: if hasattr(signal, 'SIGALRM'): signal.alarm(0),
\* which cancels the alarm of the process, whoever armed it
Peer_HandleError ==
    /\ peer_pc = "handling"
    /\ timer' = IF hasSIGALRM THEN FALSE ELSE timer
    /\ peer_pc' = "done"
    /\ UNCHANGED << config, settings, replay, request, ghosts, peer_iteration,
                    peer_history >>

PeerNext ==
    \/ Peer_Start
    \/ Peer_ArmAlarm
    \/ Peer_LLMReplies
    \/ Peer_HandleError

ConcNext == Next \/ PeerNext

ConcSpec == ConcInit /\ [][ConcNext]_vars

\* C16: concurrent solve requests in one process are independent: a step
\* of one request never changes the other request's history or iteration
\* counter, and never removes the pending deadline that protects the other
\* request's outstanding model call.
C16_RequestsIndependent ==
    [][/\ peer_pc' # peer_pc
          => /\ history' = history
             /\ iteration' = iteration
             /\ (pc = "invoke" /\ timer) => timer'
       /\ pc' # pc
          => /\ peer_history' = peer_history
             /\ peer_iteration' = peer_iteration]_vars

(***************************************************************************)
(* The two loops on the same inputs.  The replies of the model client and  *)
(* the outcomes of the executor are fixed in advance (the script); the     *)
(* request is served by agent.py, what it ended with is kept, and the      *)
(* same request is then served by reactagent.py from the same script.      *)
(* Nothing else fails: the context provider answers, no call raises, no    *)
(* deadline passes, the summary call returns.                              *)
(***************************************************************************)
\* The replies a script is made of
ScriptReplies ==
    { Garbage,
      Obj(FINAL_ANSWER, Absent, JStr(""), JStr("done")),
      Obj(FINAL_ANSWER, Absent, JStr("Your root partition is full."), JStr("done")),
      Obj(EXECUTE_COMMAND, JStr(""), Absent, JStr("check")),
      Obj(EXECUTE_COMMAND, JStr("df -h"), Absent, JStr("check disk usage")),
      Obj(EXECUTE_COMMAND, JStr("ls"), Absent, Absent),
      Obj(JStr("restart"), Absent, Absent, JStr("try something else")) }

EquivInit ==
    /\ RequestInit
    /\ impl = "proc"
    /\ llm_timeout = DefaultTimeout
    /\ hasSIGALRM
    /\ peer_pc = "none"
    /\ peer_iteration = 0
    /\ peer_history = << >>
    /\ script \in [replies : [1..max_iterations -> ScriptReplies],
                    outcomes : [1..max_iterations -> ExecOutcomes]]
    /\ first = NoRun

\* solve has returned under agent.py: the same request is given to
\* reactagent.py
ServeAgain ==
    /\ impl = "proc"
    /\ pc = "done"
    /\ first = NoRun
    /\ first' = [result |-> result, exec_log |-> exec_log,
                 model_calls |-> model_calls, history |-> history]
    /\ impl' = "graph"
    /\ pc' = "start"
    /\ iteration' = 0
    /\ history' = << >>
    /\ history_str' = << >>
    /\ timer' = FALSE
    /\ response' = NoResponse
    /\ decision' = NoDecision
    /\ exc' = ""
    /\ final_answer' = JStr("")
    /\ should_continue' = TRUE
    /\ result' = NoResult
    /\ model_calls' = 0
    /\ fallback_calls' = 0
    /\ exec_log' = << >>
    /\ exec_results' = << >>
    /\ decision_log' = << >>
    /\ timeouts' = 0
    /\ overdue' = FALSE
    /\ fallback_outcome' = "none"
    /\ UNCHANGED << max_iterations, llm_timeout, hasSIGALRM, settings, peer,
                    script >>

\* SolveStart when the context provider answers
SolveStart_Ok == SolveStart /\ pc' # "raised"

EquivNext ==
    \/ SolveStart_Ok
    \/ solve_LoopTop
    \/ agent_node_Enter
    \/ ArmAlarm
    \/ InvokeLLM
    \/ LLMReturns
    \/ CancelAlarm
    \/ Parse
    \/ HandleError
    \/ solve_Decide
    \/ solve_ExecReturns
    \/ agent_node_Decide
    \/ execute_command_node_Enter
    \/ execute_command_node_ExecReturns
    \/ Fallback_Invoke
    \/ Fallback_LLMReturns
    \/ ServeAgain

EquivSpec == EquivInit /\ [][EquivNext]_vars

\* C17: the procedural loop and the graph loop are equivalent: for the same
\* max_iterations and the same sequence of model responses and executor
\* outcomes both return the same string, dispatch the same sequence of
\* commands, make the same number of loop model calls and hold the same
\* history when the request ends.
C17_LoopsEquivalent ==
    (first # NoRun /\ pc = "done")
    => /\ result = first.result
       /\ exec_log = first.exec_log
       /\ model_calls = first.model_calls
       /\ history = first.history

\* The continue flag: state["should_continue"] in reactagent.py; in agent.py
\* it is true until a `return` inside the loop has run
Continue == IF impl = "graph" THEN should_continue ELSE result = NoResult

\* The loop has been left (a request that raised before its first iteration
\* never entered it)
LoopStopped ==
    \/ pc \in {"fallback", "fallback_invoke", "done"}
    \/ pc = "raised" /\ model_calls > 0

\* The loop is inside an iteration
InIteration ==
    pc \in {"agent", "arm", "armed", "invoke", "returned", "parse", "decided",
            "executing", "execute_command"}

\* C18: the iteration counter never decreases and never exceeds
\* max_iterations, and the loop stops exactly when continue has become false
\* or iteration equals max_iterations: it has stopped only if one of the two
\* holds, and it is inside an iteration only if neither does.
C18_IterationBoundedLoopStops ==
    /\ [][iteration' >= iteration]_vars
    /\ [](iteration <= max_iterations)
    /\ [](LoopStopped => (~Continue \/ iteration = max_iterations))
    /\ [](InIteration => (Continue /\ iteration < max_iterations))

\* An external call is outstanding
ModelCallOutstanding == pc \in {"invoke", "fallback_invoke"}

ExecutorCallOutstanding == pc = "executing"

\* C19: the external calls of a request are strictly sequential: a model
\* call and an executor call are never outstanding together; a command is
\* dispatched to the executor only directly after a step whose parsed
\* decision was execute_command with a non-empty command, that command, not
\* yet dispatched; the executor call is left for the next reasoning step only
\* with the outcome recorded on the current history entry; and nothing is
\* dispatched once the request is done.
C19_CallsStrictlySequential ==
    /\ [](~(ModelCallOutstanding /\ ExecutorCallOutstanding))
    /\ [][exec_log' # exec_log
          => /\ pc \in {"decided", "execute_command"}
             /\ decision # NoDecision
             /\ IsCommand(decision)
             /\ exec_log' = Append(exec_log, GetCommand(decision))
             /\ Len(exec_log') = Len(CommandsOf(decision_log'))
             /\ pc' = "executing"]_vars
    /\ [][(pc = "executing" /\ pc' \in {"loop", "agent"})
          => /\ history'[Len(history')].result # Absent
             /\ Len(exec_results') = Len(exec_log')]_vars
    /\ [][pc = "done" => (exec_log' = exec_log /\ pc' = "done")]_vars

\* The armed window of a loop model call: from signal.alarm(t) to the
\* signal.alarm(0) of the inner try or of the `except Exception` handler
InArmedWindow == pc \in {"armed", "invoke", "returned", "handling"}

\* C20: the deadline timer is released on every exit path of a loop model
\* call: whenever the request is outside the armed window (at the loop top,
\* while the decision is parsed and acted on, while the executor runs,
\* during the fallback, and after solve has returned or raised) no alarm is
\* pending.
C20_NoTimerOutsideWindow == ~InArmedWindow => ~timer

C20_Witness ==
    /\ AlarmWorks
    /\ pc = "done"
    /\ Len(exec_results) = 1
    /\ model_calls = 2
    /\ timeouts = 1
    /\ result = Apology
    /\ ~timer

\* C21: at whichever instant the deadline alarm goes off between being
\* armed and being cancelled (before the model call starts, during it, after
\* it returned, or while a failure of the call is being handled) the request
\* ends by returning the fixed timeout apology: once the handlers have run,
\* a request in which the alarm went off is done with the apology as its
\* result, and the TimeoutError never leaves solve.
C21_TimeoutAlwaysApology ==
    (timeouts > 0 /\ pc # "handling")
    => (pc = "done" /\ result = Apology)

\* C22: timeout detection does not depend on the platform: with a positive
\* deadline configured, on a platform with SIGALRM and on one without, a
\* loop model call never stays outstanding forever (the model client being
\* free never to answer): either the call comes back (with a reply or with
\* an exception to handle), or the request ends with the timeout apology.
C22_TimeoutOnEveryPlatform ==
    (llm_timeout > 0 /\ pc = "invoke")
    ~> \/ pc = "returned"
       \/ pc = "handling"
       \/ pc = "done" /\ result = Apology

\* Every decision parsed so far is an unknown action or an empty command
IdleOnly ==
    \A i \in 1..Len(decision_log) :
        IsUnknown(decision_log[i]) \/ IsEmptyCommand(decision_log[i])

\* Every loop model call made so far came back with a decision, and no
\* deadline went off
EveryCallDecided == Len(decision_log) = model_calls /\ timeouts = 0

RECURSIVE LinesOf(_, _)
LinesOf(tr, label) ==
    IF tr = << >> THEN << >>
    ELSE (IF Head(tr).label = label THEN << Head(tr).value >> ELSE << >>)
         \o LinesOf(Tail(tr), label)

\* The stored texts of one kind ("output" or "error") that are not empty, of
\* the entries that carry a command, in history order
RECURSIVE StoredTexts(_, _)
StoredTexts(h, kind) ==
    IF h = << >> THEN << >>
    ELSE LET e == Head(h)
             t == IF e.command = Absent \/ e.result = Absent THEN EmptyText
                  ELSE IF kind = "output" THEN e.result.output
                  ELSE e.result.error
         IN  (IF t.len > 0 THEN << t >> ELSE << >>)
             \o StoredTexts(Tail(h), kind)

\* Each line is the prefix, of length min(len, cap), of the stored text at
\* the same position
ShowsCapped(lines, texts, cap) ==
    /\ Len(lines) = Len(texts)
    /\ \A i \in 1..Len(lines) : IsPrefixOfLen(lines[i], texts[i], cap)

\* A step that renders the transcript: for a loop model call or for the
\* fallback summary
RenderStep ==
    \/ pc \in {"loop", "agent"} /\ pc' = "arm"
    \/ pc = "fallback" /\ pc' = "fallback_invoke"

\* C24: rendering applies its own caps independently of storage and without
\* changing the history: no transcript line shows more than 500 characters
\* of output or 200 characters of error, and each rendering leaves the
\* history as it was and shows, for each entry with a command, the first
\* min(len, 500) characters of the stored output and the first
\* min(len, 200) characters of the stored error (a 1500-character executor
\* output, stored as 1000 characters, is shown as exactly 500).
C24_RenderCapsIndependent ==
    /\ [](\A i \in 1..Len(history_str) :
             /\ history_str[i].label = "Output"
                   => history_str[i].value.len <= 500
             /\ history_str[i].label = "Error"
                   => history_str[i].value.len <= 200)
    /\ [][RenderStep
          => /\ history' = history
             /\ ShowsCapped(LinesOf(history_str', "Output"),
                            StoredTexts(history, "output"), 500)
             /\ ShowsCapped(LinesOf(history_str', "Error"),
                            StoredTexts(history, "error"), 200)]_vars

C24_Witness ==
    /\ pc = "arm"
    /\ Len(history) = 2
    /\ Len(exec_results) = 2
    /\ exec_results[1].output.len = 1500
    /\ exec_results[2].error.len = 600
    /\ history[1].result # Absent
    /\ history[2].result # Absent
    /\ history[1].result.output.len = 1000
    /\ history[2].result.error.len = 500
    /\ LinesOf(history_str, "Output") = << Text("out", 500) >>
    /\ LinesOf(history_str, "Error") = << Text("err", 200) >>

\* The decision that history entry e was created for: the one parsed in the
\* iteration the entry is numbered with
DecisionOf(e) == decision_log[e.iteration]

\* Entry e was created for a final_answer decision, an unknown action or an
\* empty command
NoCommandEntry(e) ==
    \/ IsFinal(DecisionOf(e))
    \/ IsUnknown(DecisionOf(e))
    \/ IsEmptyCommand(DecisionOf(e))

\* C25: a history entry created for a final_answer decision, an unknown
\* action or an empty-command decision never carries a command and never
\* receives an outcome: it has neither in any state, and no later step
\* changes it.
C25_NoOutcomeWithoutCommand ==
    /\ [](\A i \in 1..Len(history) :
             NoCommandEntry(history[i])
             => /\ history[i].command = Absent
                /\ history[i].result = Absent)
    /\ [][\A i \in 1..Len(history) :
             NoCommandEntry(history[i])
             => /\ Len(history') >= i
                /\ history'[i] = history[i]]_vars

C25_Witness ==
    /\ impl = "proc"
    /\ pc = "done"
    /\ Len(history) = 3
    /\ Len(decision_log) = 3
    /\ IsEmptyCommand(decision_log[1])
    /\ IsCommand(decision_log[2])
    /\ IsFinal(decision_log[3])
    /\ history[1].command = Absent
    /\ history[2].command # Absent
    /\ history[2].result # Absent
    /\ history[3].result = Absent
    /\ result = decision_log[3].answer

\* C26: whenever the transcript is rendered, for a loop model call or for
\* the fallback summary, every history entry that carries a command also
\* carries the outcome of an execution of that command, so every success
\* flag shown stands for an executor call that was made: there are never
\* more Success lines than outcomes stored on the entries.
C26_NoFlagWithoutExecution ==
    [][RenderStep
       => /\ \A i \in 1..Len(history) :
                history[i].command # Absent => history[i].result # Absent
          /\ Len(LinesOf(history_str', "Success")) <= Len(exec_results)]_vars

(***************************************************************************)
(* The operations of one Config object, the user's editor and the caller   *)
(* that holds the configuration load returned.  The request is not started. *)
(***************************************************************************)
idle == << config, request, timer, ghosts, peer, replay >>

ConfigInit ==
    /\ RequestInit
    /\ impl = "proc"
    /\ max_iterations = 1
    /\ llm_timeout = DefaultTimeout
    /\ hasSIGALRM
    /\ peer_pc = "none"
    /\ peer_iteration = 0
    /\ peer_history = << >>
    /\ script = NoScript
    /\ first = NoRun

\* What the user may leave in the file with an editor
FileContents ==
    { Missing, Unreadable, EmptyFile,
      Mapping([agent |-> Dict([max_iterations |-> 3])]),
      Mapping([agent |-> Scalar(5)]),
      Mapping([llm |-> Dict([provider |-> "ollama", model |-> "llama3"])]),
      Mapping([llm |-> Dict([timeout_seconds |-> 60]),
               safety |-> Dict([require_confirmation |-> FALSE])]) }

\* "You can edit the config file directly"
EditFile ==
    /\ \E f \in FileContents : config_file' = f
    /\ config_file' # config_file
    /\ last_op' = "edit"
    /\ UNCHANGED << idle, default_config, returned >>

\* Config.load: the defaults' copy when the file is missing or cannot be
\* read as a mapping (the except branch), else _merge_with_defaults
load ==
    /\ IF config_file.kind = "map"
       THEN /\ default_config' = MergedDefaults(config_file.sections)
            /\ returned' = Merged(config_file.sections)
       ELSE /\ returned' = DefaultCopy
            /\ UNCHANGED default_config
    /\ last_op' = "load"
    /\ UNCHANGED << idle, config_file >>

\* Config.save of the configuration the caller holds; open() may fail
save ==
    /\ returned # NoConfig
    /\ \E written \in BOOLEAN :
          config_file' = IF written THEN Dumped(returned) ELSE config_file
    /\ last_op' = "save"
    /\ UNCHANGED << idle, default_config, returned >>

\* The answers typed at the prompts of setup_interactive; int() raises
\* ValueError on an answer that is no number
Providers == {"gemini", "ollama"}

TimeoutAnswers == {"30", "60", "soon"}

IsNumber(a) == a \in {"30", "60"}

ToInt(a) == IF a = "30" THEN 30 ELSE 60

\* config['llm'][...] = ... up to the model name, on the shared llm dict
AfterProvider(llm, provider) ==
    IF provider = "gemini"
    THEN [llm EXCEPT !.provider = provider, !.api_key = "key",
                     !.model = "gemini-pro"]
    ELSE [llm EXCEPT !.provider = provider, !.model = "llama3"]

\* Config.setup_interactive: config = self.default_config.copy(), then item
\* assignments into its nested dicts, then save(config)
setup_interactive ==
    /\ \E provider \in Providers, a1, a2 \in TimeoutAnswers :
          LET llm1 == AfterProvider(default_config.llm, provider)
              llm2 == [llm1 EXCEPT !.timeout_seconds = ToInt(a1)]
              safety1 == [default_config.safety EXCEPT
                             !.timeout_seconds = ToInt(a2)]
              done == [llm |-> llm2,
                       agent |-> [default_config.agent EXCEPT
                                     !.max_iterations = 10],
                       safety |-> [safety1 EXCEPT
                                     !.require_confirmation = TRUE]]
          IN  IF ~IsNumber(a1)
              THEN /\ default_config' = [default_config EXCEPT !.llm = llm1]
                   /\ UNCHANGED config_file
              ELSE IF ~IsNumber(a2)
              THEN /\ default_config' = [default_config EXCEPT !.llm = llm2]
                   /\ UNCHANGED config_file
              ELSE /\ default_config' = done
                   /\ config_file' = Mapping([k \in Sections |-> Dict(done[k])])
    /\ last_op' = "setup_interactive"
    /\ UNCHANGED << idle, returned >>

\* The caller assigns into the configuration it was returned: an item of a
\* nested dict, or a top-level key
CallerChanges ==
    /\ returned # NoConfig
    /\ \/ /\ returned.top["agent"].kind = "shared"
          /\ default_config' =
                [default_config EXCEPT !.agent.max_iterations = 3]
          /\ UNCHANGED returned
       \/ /\ returned.top["llm"].kind = "shared"
          /\ default_config' =
                [default_config EXCEPT !.llm.timeout_seconds = 60]
          /\ UNCHANGED returned
       \/ /\ returned' = [returned EXCEPT
                             !.top["agent"] = Own(Dict([max_iterations |-> 3]))]
          /\ UNCHANGED default_config
    /\ last_op' = "caller"
    /\ UNCHANGED << idle, config_file >>

ConfigNext ==
    \/ EditFile
    \/ load
    \/ save
    \/ setup_interactive
    \/ CallerChanges

ConfigSpec == ConfigInit /\ [][ConfigNext]_vars

\* config.get('agent', {}).get('max_iterations'), where it is a number
HasMaxIterations(c) ==
    /\ Section(c, "agent").kind = "dict"
    /\ "max_iterations" \in DOMAIN Section(c, "agent").d

\* C27: the iteration budget is fixed and not configurable: in every
\* configuration returned by Config.load, whatever the configuration file
\* contains, agent.max_iterations is 10.
C27_MaxIterationsFixed ==
    last_op = "load"
    => /\ HasMaxIterations(returned)
       /\ Section(returned, "agent").d["max_iterations"] = 10

\* C28: after any sequence of load, setup_interactive and save on one Config
\* object, and any change a caller makes to a configuration it was
\* returned, the default configuration still holds its original values, and
\* a load with no configuration file returns the original defaults.
C28_DefaultsKeepOriginalValues ==
    /\ default_config = OriginalDefaults
    /\ (last_op = "load" /\ config_file = Missing)
          => \A k \in Sections :
                Section(returned, k) = Dict(OriginalDefaults[k])

====
